---- MODULE Spec2Model ----
(***************************************************************************)
(* Model of tools/sync_course_structure.py: the per-lesson presence scan,  *)
(* the weighted completion score, the module aggregation and the driver.   *)
(***************************************************************************)
EXTENDS Integers, Sequences, FiniteSets, TLC

(***************************************************************************)
(* Python floats.  A non-negative binary64 value v is kept as the natural  *)
(* number v * 2^FracBits, written in base 2^LimbBits, least significant    *)
(* limb first, without leading zero limbs (0.0 is << >>).  Every operation *)
(* computes the exact result and rounds it to MantBits significant bits,   *)
(* ties to even, as IEEE 754 binary64 does.  The values of the program (0, *)
(* and 0.01 up to a few hundred) need no bit below 2^-59.                  *)
(***************************************************************************)
FracBits == 60

LimbBits == 15

MantBits == 53

RECURSIVE Pow2(_)
Pow2(n) == IF n <= 0 THEN 1 ELSE 2 * Pow2(n - 1)

Base == Pow2(LimbBits)

RECURSIVE Zeros(_)
Zeros(n) == IF n <= 0 THEN << >> ELSE <<0>> \o Zeros(n - 1)

RECURSIVE Trim(_)
Trim(s) ==
    IF s = << >> THEN << >>
    ELSE IF s[Len(s)] # 0 THEN s
    ELSE Trim(SubSeq(s, 1, Len(s) - 1))

RECURSIVE NatLimbs(_)
NatLimbs(n) == IF n = 0 THEN << >> ELSE <<n % Base>> \o NatLimbs(n \div Base)

\* number of bits of the natural number n
RECURSIVE BitLen(_)
BitLen(n) == IF n = 0 THEN 0 ELSE 1 + BitLen(n \div 2)

LimbAt(s, i) == IF i >= 1 /\ i <= Len(s) THEN s[i] ELSE 0

RECURSIVE AddCarry(_, _, _, _)
AddCarry(a, b, i, c) ==
    IF i > Len(a) /\ i > Len(b)
    THEN NatLimbs(c)
    ELSE LET t == LimbAt(a, i) + LimbAt(b, i) + c
         IN  <<t % Base>> \o AddCarry(a, b, i + 1, t \div Base)

\* exact a + b
AddLimbs(a, b) == AddCarry(a, b, 1, 0)

RECURSIVE MulCarry(_, _, _, _)
MulCarry(a, k, i, c) ==
    IF i > Len(a)
    THEN NatLimbs(c)
    ELSE LET t == a[i] * k + c
         IN  <<t % Base>> \o MulCarry(a, k, i + 1, t \div Base)

\* exact a * k, k a small natural number
MulSmall(a, k) == Trim(MulCarry(a, k, 1, 0))

\* long division of a by the small natural k, from the top limb down:
\* [q |-> floor(a / k), r |-> a mod k]
RECURSIVE DivStep(_, _, _, _)
DivStep(a, k, i, r) ==
    IF i = 0
    THEN [q |-> << >>, r |-> r]
    ELSE LET t    == r * Base + a[i]
             rest == DivStep(a, k, i - 1, t % k)
         IN  [q |-> rest.q \o <<t \div k>>, r |-> rest.r]

DivSmall(a, k) ==
    LET d == DivStep(a, k, Len(a), 0) IN [q |-> Trim(d.q), r |-> d.r]

\* -1, 0, 1 as a < b, a = b, a > b
RECURSIVE CmpFrom(_, _, _)
CmpFrom(a, b, i) ==
    IF i = 0 THEN 0
    ELSE IF a[i] # b[i] THEN (IF a[i] > b[i] THEN 1 ELSE -1)
    ELSE CmpFrom(a, b, i - 1)

CmpLimbs(a, b) ==
    IF Len(a) # Len(b) THEN (IF Len(a) > Len(b) THEN 1 ELSE -1)
    ELSE CmpFrom(a, b, Len(a))

\* 2^n
Pow2Limbs(n) == Zeros(n \div LimbBits) \o <<Pow2(n % LimbBits)>>

\* round the exact value a (plus a non-zero remainder below its last bit when
\* sticky) to MantBits significant bits, round-half-to-even
RoundMant(a, sticky) ==
    LET bits == IF a = << >> THEN 0
                ELSE LimbBits * (Len(a) - 1) + BitLen(a[Len(a)])
    IN  IF bits <= MantBits THEN a
        ELSE LET d     == bits - MantBits
                 qd    == d \div LimbBits
                 rd    == d % LimbBits
                 cut   == a[qd + 1] % Pow2(rd)
                 \* the d bits dropped, and the value without them
                 drop  == Trim(SubSeq(a, 1, qd) \o <<cut>>)
                 kept  == Zeros(qd) \o <<a[qd + 1] - cut>>
                              \o SubSeq(a, qd + 2, Len(a))
                 odd   == (a[qd + 1] \div Pow2(rd)) % 2 = 1
                 half  == CmpLimbs(drop, Pow2Limbs(d - 1))
                 up    == half > 0 \/ (half = 0 /\ (sticky \/ odd))
             IN  IF up THEN AddLimbs(kept, Pow2Limbs(d)) ELSE kept

\* float(n) for a small natural n
FromInt(n) ==
    IF n = 0 THEN << >>
    ELSE Zeros(FracBits \div LimbBits) \o NatLimbs(n * Pow2(FracBits % LimbBits))

\* int / int (Python true division, correctly rounded)
IntTrueDiv(x, y) ==
    LET d == DivSmall(FromInt(x), y) IN RoundMant(d.q, d.r # 0)

\* float * int
FloatMulInt(f, k) == RoundMant(MulSmall(f, k), FALSE)

\* float + float
FloatAdd(f, g) == RoundMant(AddLimbs(f, g), FALSE)

\* float / int
FloatDivInt(f, n) ==
    LET d == DivSmall(f, n) IN RoundMant(d.q, d.r # 0)

\* float >= int
FloatGE(f, n) == CmpLimbs(f, FromInt(n)) >= 0

\* float <= float
FloatLE(f, g) == CmpLimbs(f, g) <= 0

(***************************************************************************)
(* Python str.  A string is the sequence of its symbols.  A symbol is one  *)
(* character ("_", "1", "a", " ") or a run of characters that the program  *)
(* only ever handles whole ("lesson", "README", ".md", "vulnerabilities"): *)
(* every literal of the source is a sequence of whole symbols.             *)
(***************************************************************************)
\* cased symbols: lower-case form, upper-case form, capitalised form
Cased ==
    { <<"a", "A", "A">>, <<"b", "B", "B">>, <<"lesson", "LESSON", "Lesson">> }

IsCased(c) == \E t \in Cased : c \in {t[1], t[2], t[3]}

CaseForm(c, k) ==
    IF IsCased(c)
    THEN (CHOOSE t \in Cased : c \in {t[1], t[2], t[3]})[k]
    ELSE c

\* str.upper()
upper(s) == [i \in 1..Len(s) |-> CaseForm(s[i], 2)]

\* str.title(): a cased symbol is capitalised after an uncased one (or at the
\* start) and lower-cased after a cased one
title(s) ==
    [i \in 1..Len(s) |->
        IF i > 1 /\ IsCased(s[i - 1]) THEN CaseForm(s[i], 1) ELSE CaseForm(s[i], 3)]

\* str.replace(old, new) for one-symbol old and new
replace(s, old, new) == [i \in 1..Len(s) |-> IF s[i] = old THEN new ELSE s[i]]

\* str.split(sep): the list of the (possibly empty) pieces between the seps
RECURSIVE split(_, _)
split(s, sep) ==
    IF \A i \in 1..Len(s) : s[i] # sep
    THEN <<s>>
    ELSE LET k == CHOOSE i \in 1..Len(s) :
                      s[i] = sep /\ \A j \in 1..(i - 1) : s[j] # sep
         IN  <<SubSeq(s, 1, k - 1)>> \o split(SubSeq(s, k + 1, Len(s)), sep)

\* sep.join(parts)
RECURSIVE join(_, _)
join(sep, parts) ==
    IF parts = << >> THEN << >>
    ELSE IF Len(parts) = 1 THEN parts[1]
    ELSE parts[1] \o <<sep>> \o join(sep, Tail(parts))

\* sub in s
Contains(s, sub) ==
    \E i \in 0..(Len(s) - Len(sub)) : SubSeq(s, i + 1, i + Len(sub)) = sub

Digits == <<"0", "1", "2", "3", "4", "5", "6", "7", "8", "9">>

IsDigit(c) == \E d \in 1..Len(Digits) : Digits[d] = c

DigitVal(c) == (CHOOSE d \in 1..Len(Digits) : Digits[d] = c) - 1

\* int(s) raises ValueError unless s is a non-empty run of digits
IntParses(s) == s # << >> /\ \A i \in 1..Len(s) : IsDigit(s[i])

RECURSIVE int(_)
int(s) ==
    IF s = << >> THEN 0
    ELSE 10 * int(SubSeq(s, 1, Len(s) - 1)) + DigitVal(s[Len(s)])

\* fnmatch of the file name s against the pattern p, "*" matching any run
RECURSIVE fnmatch(_, _)
fnmatch(s, p) ==
    IF p = << >> THEN s = << >>
    ELSE IF Head(p) = "*"
         THEN fnmatch(s, Tail(p)) \/ (s # << >> /\ fnmatch(Tail(s), p))
    ELSE s # << >> /\ Head(s) = Head(p) /\ fnmatch(Tail(s), Tail(p))

(***************************************************************************)
(* The file system.  A node is [name, is_dir, entries]; entries is the set *)
(* of the nodes of a directory (empty for a regular file).                 *)
(***************************************************************************)
File(name) == [name |-> name, is_dir |-> FALSE, entries |-> {}]

Dir(name, entries) == [name |-> name, is_dir |-> TRUE, entries |-> entries]

\* (path / name).exists()
exists(dir, name) == dir.is_dir /\ \E e \in dir.entries : e.name = name

\* path / name, for an existing entry
child(dir, name) == CHOOSE e \in dir.entries : e.name = name

\* what the generator path.glob(pattern) yields
glob(dir, pattern) ==
    IF dir.is_dir THEN {e \in dir.entries : fnmatch(e.name, pattern)} ELSE {}

\* any(g) for a generator g of paths: a path is a true value
any(yielded) == yielded # {}

\* bool(g) of a generator object g: an object without __bool__ and __len__
\* is true, whatever it would yield
GeneratorTruth(yielded) == TRUE

(***************************************************************************)
(* PatternStatus                                                           *)
(***************************************************************************)
None == [type |-> "NoneType"]

\* the weights dictionary of completion_percentage, in its order
Attrs ==
    << "has_readme", "has_cmakelists", "has_security_analysis",
       "has_security_poster", "has_vulnerabilities", "has_exploits",
       "has_secure_alternatives", "has_cpp23_comparison" >>

weights ==
    [ has_readme |-> 10, has_cmakelists |-> 10, has_security_analysis |-> 15,
      has_security_poster |-> 15, has_vulnerabilities |-> 15,
      has_exploits |-> 10, has_secure_alternatives |-> 15,
      has_cpp23_comparison |-> 10 ]

\* the dataclass constructor: every flag False, both lists empty
\* (id: module_number, module_name, lesson_number, lesson_name, pattern_name,
\* directory); main_cpp_files and other_files, lists in the order of the
\* directory listing, are kept as the sets of their elements
PatternStatus(id) ==
    [ module_number |-> id[1], module_name |-> id[2],
      lesson_number |-> id[3], lesson_name |-> id[4],
      pattern_name |-> id[5], directory |-> id[6],
      has_readme |-> FALSE, has_cmakelists |-> FALSE,
      has_security_analysis |-> FALSE, has_security_poster |-> FALSE,
      has_vulnerabilities |-> FALSE, has_exploits |-> FALSE,
      has_secure_alternatives |-> FALSE, has_cpp23_comparison |-> FALSE,
      main_cpp_files |-> {}, other_files |-> {} ]

\* sum(w[a] for a in attrs[i..] if pred[a])
RECURSIVE SumWeights(_, _, _)
SumWeights(w, self, i) ==
    IF i > Len(Attrs) THEN 0
    ELSE (IF self[Attrs[i]] THEN w[Attrs[i]] ELSE 0) + SumWeights(w, self, i + 1)

total_weight == SumWeights(weights, [a \in DOMAIN weights |-> TRUE], 1)

achieved_weight(self) == SumWeights(weights, self, 1)

\* as completion_percentage, dividing by a total that misses one 10-point
\* component
completion_percentage_stale_total(self) ==
    FloatMulInt(IntTrueDiv(achieved_weight(self), total_weight - 10), 100)

\* (achieved_weight / total_weight) * 100, a float
completion_percentage(self) ==
    FloatMulInt(IntTrueDiv(achieved_weight(self), total_weight), 100)

\* the emoji, by the colour or sign it shows
get_status_emoji(self) ==
    LET completion == completion_percentage(self)
    IN  IF FloatGE(completion, 90) THEN "check mark"
        ELSE IF FloatGE(completion, 70) THEN "green circle"
        ELSE IF FloatGE(completion, 50) THEN "yellow circle"
        ELSE IF FloatGE(completion, 30) THEN "orange circle"
        ELSE "red circle"

\* as get_status_text, with > for >= at the 50 threshold
get_status_text_strict_50(self) ==
    LET completion == completion_percentage(self)
    IN  IF FloatGE(completion, 90) THEN "fully implemented"
        ELSE IF FloatGE(completion, 70) THEN "practically complete"
        ELSE IF FloatGE(completion, 50) /\ completion # FromInt(50)
             THEN "partially implemented"
        ELSE IF FloatGE(completion, 30) THEN "basic structure"
        ELSE "minimal structure"

\* the Russian status text, in English
get_status_text(self) ==
    LET completion == completion_percentage(self)
    IN  IF FloatGE(completion, 90) THEN "fully implemented"
        ELSE IF FloatGE(completion, 70) THEN "practically complete"
        ELSE IF FloatGE(completion, 50) THEN "partially implemented"
        ELSE IF FloatGE(completion, 30) THEN "basic structure"
        ELSE "minimal structure"

(***************************************************************************)
(* ModuleStats                                                             *)
(***************************************************************************)
ModuleStats(module_number, module_name) ==
    [ module_number |-> module_number, module_name |-> module_name,
      patterns |-> << >> ]

total_patterns(self) == Len(self.patterns)

\* sum(p.completion_percentage() for p in ps): 0 + p1 + p2 + ..., left to
\* right, each float addition rounded
RECURSIVE SumCompletion(_)
SumCompletion(ps) ==
    IF ps = << >> THEN FromInt(0)
    ELSE FloatAdd(SumCompletion(SubSeq(ps, 1, Len(ps) - 1)),
                  completion_percentage(ps[Len(ps)]))

\* as average_completion, dividing by one more than the number of lessons
average_completion_off_by_one(self) ==
    IF self.patterns = << >> THEN FromInt(0)
    ELSE FloatDivInt(SumCompletion(self.patterns), Len(self.patterns) + 1)

average_completion(self) ==
    IF self.patterns = << >> THEN FromInt(0)
    ELSE FloatDivInt(SumCompletion(self.patterns), Len(self.patterns))

(***************************************************************************)
(* CourseStructureScanner                                                  *)
(***************************************************************************)
\* MODULES, in dictionary order: directory name, (number, display name)
MODULES ==
    << [dir |-> <<"01-basics">>,      num |-> 1, name |-> "C++ basics"],
       [dir |-> <<"02-principles">>,  num |-> 2, name |-> "Design principles"],
       [dir |-> <<"03-creational">>,  num |-> 3, name |-> "Creational patterns"],
       [dir |-> <<"04-structural">>,  num |-> 4, name |-> "Structural patterns"],
       [dir |-> <<"05-behavioral">>,  num |-> 5, name |-> "Behavioral patterns"],
       [dir |-> <<"06-modern-cpp">>,  num |-> 6, name |-> "Modern C++"],
       [dir |-> <<"07-concurrency">>, num |-> 7, name |-> "Concurrency patterns"],
       [dir |-> <<"08-high-load">>,   num |-> 8, name |-> "High-load patterns"],
       [dir |-> <<"09-performance">>, num |-> 9, name |-> "Performance patterns"] >>

\* as pattern_name_of, joining from the third part on (parts[2:])
pattern_name_from_third(parts) ==
    IF Len(parts) > 3 THEN join("_", SubSeq(parts, 3, Len(parts))) ELSE parts[3]

\* pattern_name = '_'.join(parts[3:]) if len(parts) > 3 else parts[2]
pattern_name_of(parts) ==
    IF Len(parts) > 3 THEN join("_", SubSeq(parts, 4, Len(parts))) ELSE parts[3]

\* _scan_lesson: [exc |-> "ValueError"] when int() raises, else
\* [exc |-> "none", value |-> None or the PatternStatus]
\* (module_dir stands for self.project_root in relative_to)
_scan_lesson(module_num, module_name, module_dir, lesson_dir) ==
    LET parts == split(lesson_dir.name, "_")
    IN  IF Len(parts) < 3 THEN [exc |-> "none", value |-> None]
        ELSE IF ~IntParses(parts[2]) THEN [exc |-> "ValueError", value |-> None]
        ELSE
        LET lesson_num   == int(parts[2])
            pattern_name == pattern_name_of(parts)
            lesson_name  == title(replace(pattern_name, "_", " "))
            status       == PatternStatus(<<module_num, module_name, lesson_num,
                                lesson_name, pattern_name,
                                <<module_dir, lesson_dir.name>> >>)
            exploits_dir == <<"exploits">>
            poster_patterns ==
                << <<"*", "SECURITY", "_", "POSTER", ".md">>,
                   upper(pattern_name) \o <<"_", "SECURITY", "_", "POSTER", ".md">> >>
            cpp23_patterns ==
                << <<"*", "_", "cpp23", "_", "comparison", ".cpp">>,
                   <<"*", "_", "cpp23", "_", "*", ".cpp">> >>
        IN  [exc |-> "none", value |->
             [status EXCEPT
                !.has_readme = exists(lesson_dir, <<"README", ".md">>),
                !.has_cmakelists = exists(lesson_dir, <<"CMakeLists", ".txt">>),
                !.has_security_analysis =
                    exists(lesson_dir, <<"SECURITY", "_", "ANALYSIS", ".md">>),
                !.has_vulnerabilities =
                    any(glob(lesson_dir, <<"*", "_", "vulnerabilities", ".cpp">>)),
                !.has_secure_alternatives =
                    any(glob(lesson_dir,
                             <<"secure", "_", "*", "_", "alternatives", ".cpp">>)),
                !.has_exploits =
                    exists(lesson_dir, exploits_dir)
                    /\ any(glob(child(lesson_dir, exploits_dir), <<"*", ".cpp">>)),
                \* any(lesson_dir.glob(pattern) for pattern in poster_patterns):
                \* the elements any() tests are the generator objects
                !.has_security_poster =
                    \E i \in 1..Len(poster_patterns) :
                        GeneratorTruth(glob(lesson_dir, poster_patterns[i])),
                !.has_cpp23_comparison =
                    \E i \in 1..Len(cpp23_patterns) :
                        GeneratorTruth(glob(lesson_dir, cpp23_patterns[i])),
                !.main_cpp_files =
                    { f.name : f \in
                        { g \in glob(lesson_dir, <<"*", ".cpp">>) :
                            /\ ~Contains(g.name, <<"vulnerabilities">>)
                            /\ ~Contains(g.name, <<"secure", "_">>)
                            /\ ~Contains(g.name, <<"cpp23">>) } },
                !.other_files =
                    { f.name : f \in
                        { g \in glob(lesson_dir, <<"*", ".md">>) :
                            /\ g.name \notin { <<"README", ".md">>,
                                   <<"SECURITY", "_", "ANALYSIS", ".md">> }
                            /\ ~Contains(g.name, <<"SECURITY", "_", "POSTER">>) } }
             ]]

\* the order of the symbols that occur in the names the scan sorts: the code
\* point order of their first characters
SymbolOrder ==
    << "0", "1", "2", "3", "4", "5", "6", "7", "8", "9", "A", "B", "_",
       "a", "b", "lesson", "x" >>

SymbolRank(c) == CHOOSE i \in 1..Len(SymbolOrder) : SymbolOrder[i] = c

\* s < t for strings
RECURSIVE StrLess(_, _)
StrLess(s, t) ==
    IF t = << >> THEN FALSE
    ELSE IF s = << >> THEN TRUE
    ELSE IF Head(s) # Head(t) THEN SymbolRank(Head(s)) < SymbolRank(Head(t))
    ELSE StrLess(Tail(s), Tail(t))

\* sorted(paths): the paths of one directory, by name
RECURSIVE sorted(_)
sorted(nodes) ==
    IF nodes = {} THEN << >>
    ELSE LET m == CHOOSE n \in nodes :
                      \A o \in nodes \ {n} : StrLess(n.name, o.name)
         IN  <<m>> \o sorted(nodes \ {m})

\* get_overall_stats
get_overall_stats(ps, ms) ==
    LET total == Len(ps)
    IN  [ total_patterns |-> total,
          average_completion |->
              IF total # 0 THEN FloatDivInt(SumCompletion(ps), total)
              ELSE FromInt(0),
          files |-> [a \in DOMAIN weights |->
                        Cardinality({i \in 1..Len(ps) : ps[i][a]})],
          modules |-> Cardinality(DOMAIN ms) ]

\* the coverage rows: (count / stats['total_patterns']) * 100 for every
\* component; ZeroDivisionError when there is no pattern
CoverageRaises(stats) == stats.total_patterns = 0

Coverage(stats) ==
    [a \in DOMAIN stats.files |->
        FloatMulInt(IntTrueDiv(stats.files[a], stats.total_patterns), 100)]

\* generate_markdown: the data the report text is formatted from
generate_markdown(ps, ms) ==
    LET stats == get_overall_stats(ps, ms)
    IN  [ total_patterns |-> stats.total_patterns,
          average_completion |-> stats.average_completion,
          modules |-> stats.modules,
          coverage |-> Coverage(stats),
          sections |->
              [k \in DOMAIN ms |->
                  [ module_name |-> ms[k].module_name,
                    total_patterns |-> total_patterns(ms[k]),
                    average_completion |-> average_completion(ms[k]),
                    rows |-> [i \in 1..Len(ms[k].patterns) |->
                        LET p == ms[k].patterns[i]
                        IN  [ lesson_number |-> p.lesson_number,
                              lesson_name |-> p.lesson_name,
                              emoji |-> get_status_emoji(p),
                              text |-> get_status_text(p),
                              completion |-> completion_percentage(p) ]] ]] ]

(***************************************************************************)
(* The inputs explored                                                     *)
(***************************************************************************)
README == <<"README", ".md">>

CMAKELISTS == <<"CMakeLists", ".txt">>

SECURITY_ANALYSIS == <<"SECURITY", "_", "ANALYSIS", ".md">>

\* files a lesson directory may hold
CandidateFiles ==
    { File(README), File(CMAKELISTS), File(SECURITY_ANALYSIS),
      File(<<"a", "_", "vulnerabilities", ".cpp">>),
      File(<<"secure", "_", "a", "_", "alternatives", ".cpp">>),
      File(<<"A", "_", "SECURITY", "_", "POSTER", ".md">>),
      File(<<"a", "_", "cpp23", "_", "comparison", ".cpp">>),
      File(<<"a", "_", "cpp23", "_", "b", ".cpp">>),
      File(<<"a", ".cpp">>),
      File(<<"NOTES", ".md">>) }

\* what a lesson directory may hold under the name "exploits"
ExploitsVariants ==
    { {}, {File(<<"exploits">>)}, {Dir(<<"exploits">>, {})},
      {Dir(<<"exploits">>, {File(<<"a", "_", "exploits", ".cpp">>)})} }

LessonContents ==
    { fs \cup ex : fs \in SUBSET CandidateFiles, ex \in ExploitsVariants }

\* the underscore-free pieces directory names are built from
Segments == { << >>, <<"1">>, <<"1", "0">>, <<"a">>, <<"1", "a">> }

MaxSegments == 5

RECURSIVE SegmentLists(_)
SegmentLists(n) ==
    IF n <= 0 THEN { << >> }
    ELSE { << >> } \cup
         { <<s>> \o r : s \in Segments, r \in SegmentLists(n - 1) }

RECURSIVE Glue(_)
Glue(segs) ==
    IF Len(segs) = 1 THEN segs[1]
    ELSE segs[1] \o <<"_">> \o Glue(Tail(segs))

\* "lesson", "lesson_", "lesson_1", ..., up to MaxSegments pieces
LessonNames ==
    { Glue(<< <<"lesson">> >> \o r) : r \in SegmentLists(MaxSegments - 1) }

Lesson_1_a == <<"lesson", "_", "1", "_", "a">>

Lesson_2_x_b == <<"lesson", "_", "2", "_", "x", "_", "b">>

OnlyReadmeAndBuild == { File(README), File(CMAKELISTS) }

\* the lesson directories given to _scan_lesson on its own: every name with
\* two kinds of contents, and two names with every kind of contents
UnitLessons ==
    { Dir(n, c) : n \in LessonNames, c \in { {}, OnlyReadmeAndBuild } }
    \cup { Dir(n, c) : n \in { Lesson_1_a, Lesson_2_x_b }, c \in LessonContents }

\* the entries a module directory may hold
Pool ==
    { Dir(<<"lesson", "_", "0">>, { File(README) }),
      File(<<"lesson", "_", "0", "_", "a">>),
      Dir(Lesson_1_a, OnlyReadmeAndBuild),
      Dir(<<"lesson", "_", "1", "a", "_", "b">>, { File(README) }),
      Dir(Lesson_2_x_b,
          { File(README), File(CMAKELISTS), File(SECURITY_ANALYSIS),
            File(<<"a", "_", "vulnerabilities", ".cpp">>) }),
      Dir(<<"lesson", "_", "3", "_", "x", "_", "a", "_", "b">>,
          { File(README), File(CMAKELISTS),
            Dir(<<"exploits">>, {File(<<"a", "_", "exploits", ".cpp">>)}) }),
      Dir(<<"docs">>, { File(README) }) }

MaxLessons == 3

\* indices in MODULES of the module directories that may exist
PresentModules == { 1, 9 }

Absent == [type |-> "absent"]

RECURSIVE Total(_, _)
Total(f, S) ==
    IF S = {} THEN 0
    ELSE LET i == CHOOSE j \in S : TRUE
         IN  (IF f[i] = Absent THEN 0 ELSE Cardinality(f[i].entries))
             + Total(f, S \ {i})

\* the project trees with the module directories mods, each absent, a
\* regular file or a directory of entries of pool, n entries at most in all
Trees(mods, pool, n) ==
    LET choices == { Absent } \cup { File(<<"m">>) }
                   \cup { Dir(<<"m">>, es) : es \in SUBSET pool }
        picks   == { f \in [mods -> choices] : Total(f, mods) <= n }
    IN  { { [f[i] EXCEPT !.name = MODULES[i].dir] :
                i \in {j \in mods : f[j] # Absent} } : f \in picks }

(***************************************************************************)
(* State                                                                   *)
(***************************************************************************)
VARIABLES
    tree,          \* the entries of the project root (fixed during a run)
    args,          \* the parsed command line, None before parse_args
    outfile,       \* the contents of the output file, None when it is missing
    pc,            \* where the program is
    patterns,      \* scanner.patterns
    modules,       \* scanner.modules: module number -> ModuleStats
    mi,            \* scan: index in MODULES of the module of this iteration
    module_stats,  \* scan: the local module_stats, None outside the inner loop
    lesson_dirs,   \* scan: what is left of sorted(module_path.glob('lesson_*'))
    exc,           \* the exception that ended the run, "none" when none did
    console,       \* what was printed, line group by line group
    exit_code,     \* the exit status of the process, Running until it ends
    ret            \* what a function called on its own returned

vars ==
    << tree, args, outfile, pc, patterns, modules, mi, module_stats,
       lesson_dirs, exc, console, exit_code, ret >>

Running == 0 - 1

NoModules == [k \in {} |-> None]

\* CourseStructureScanner.__init__, and everything else not yet set
Fresh ==
    /\ patterns = << >>
    /\ modules = NoModules
    /\ mi = 0
    /\ module_stats = None
    /\ lesson_dirs = << >>
    /\ exc = "none"
    /\ console = << >>
    /\ exit_code = Running
    /\ ret = None

(***************************************************************************)
(* CourseStructureScanner.scan, one step per loop iteration                *)
(***************************************************************************)
ScanStart ==
    /\ pc = "scan"
    /\ pc' = "modules"
    /\ mi' = 1
    /\ console' = Append(console, "scanning project")
    /\ UNCHANGED << tree, args, outfile, patterns, modules, module_stats,
                    lesson_dirs, exc, exit_code, ret >>

\* the head of the loop over MODULES, up to the start of the inner loop
ScanModule ==
    /\ pc = "modules"
    /\ mi <= Len(MODULES)
    /\ LET root == Dir(<<"project_root">>, tree)
           m    == MODULES[mi]
       IN  IF ~exists(root, m.dir)
           THEN /\ console' = Append(console, "module not found")
                /\ mi' = mi + 1
                /\ UNCHANGED << pc, module_stats, lesson_dirs >>
           ELSE /\ console' = Append(console, "scanning module")
                /\ module_stats' = ModuleStats(m.num, m.name)
                /\ lesson_dirs' =
                       sorted(glob(child(root, m.dir), <<"lesson", "_", "*">>))
                /\ pc' = "lessons"
                /\ UNCHANGED mi
    /\ UNCHANGED << tree, args, outfile, patterns, modules, exc, exit_code, ret >>

\* as ScanLessonDir, without the test "if pattern_status:": what _scan_lesson
\* returned is appended even when it is None
ScanLessonDirAppendsNone ==
    /\ pc = "lessons"
    /\ lesson_dirs # << >>
    /\ LET lesson_dir == Head(lesson_dirs)
           m          == MODULES[mi]
           r          == _scan_lesson(m.num, m.name, m.dir, lesson_dir)
       IN  IF ~lesson_dir.is_dir
           THEN /\ lesson_dirs' = Tail(lesson_dirs)
                /\ UNCHANGED << pc, patterns, module_stats, exc, exit_code >>
           ELSE IF r.exc # "none"
           THEN /\ exc' = r.exc
                /\ pc' = "raised"
                /\ exit_code' = IF args = None THEN exit_code ELSE 1
                /\ UNCHANGED << lesson_dirs, patterns, module_stats >>
           ELSE /\ patterns' = Append(patterns, r.value)
                /\ module_stats' =
                       [module_stats EXCEPT !.patterns = Append(@, r.value)]
                /\ lesson_dirs' = Tail(lesson_dirs)
                /\ UNCHANGED << pc, exc, exit_code >>
    /\ UNCHANGED << tree, args, outfile, modules, mi, console, ret >>

\* one iteration of the loop over the lesson directories
ScanLessonDir ==
    /\ pc = "lessons"
    /\ lesson_dirs # << >>
    /\ LET lesson_dir == Head(lesson_dirs)
           m          == MODULES[mi]
           r          == _scan_lesson(m.num, m.name, m.dir, lesson_dir)
       IN  IF ~lesson_dir.is_dir
           THEN /\ lesson_dirs' = Tail(lesson_dirs)
                /\ UNCHANGED << pc, patterns, module_stats, exc, exit_code >>
           ELSE IF r.exc # "none"
           THEN \* the exception leaves scan and, uncaught, ends the process
                /\ exc' = r.exc
                /\ pc' = "raised"
                /\ exit_code' = IF args = None THEN exit_code ELSE 1
                /\ UNCHANGED << lesson_dirs, patterns, module_stats >>
           ELSE IF r.value # None
           THEN /\ patterns' = Append(patterns, r.value)
                /\ module_stats' =
                       [module_stats EXCEPT !.patterns = Append(@, r.value)]
                /\ lesson_dirs' = Tail(lesson_dirs)
                /\ UNCHANGED << pc, exc, exit_code >>
           ELSE /\ lesson_dirs' = Tail(lesson_dirs)
                /\ UNCHANGED << pc, patterns, module_stats, exc, exit_code >>
    /\ UNCHANGED << tree, args, outfile, modules, mi, console, ret >>

\* as ScanModuleEnd, keeping a module only when it has more than one lesson
ScanModuleEndMoreThanOne ==
    /\ pc = "lessons"
    /\ lesson_dirs = << >>
    /\ modules' =
           IF Len(module_stats.patterns) > 1
           THEN [k \in DOMAIN modules \cup {module_stats.module_number} |->
                    IF k = module_stats.module_number THEN module_stats
                    ELSE modules[k]]
           ELSE modules
    /\ module_stats' = None
    /\ mi' = mi + 1
    /\ pc' = "modules"
    /\ UNCHANGED << tree, args, outfile, patterns, lesson_dirs, exc, console,
                    exit_code, ret >>

\* after the inner loop: if module_stats.patterns: self.modules[...] = ...
ScanModuleEnd ==
    /\ pc = "lessons"
    /\ lesson_dirs = << >>
    /\ modules' =
           IF module_stats.patterns # << >>
           THEN [k \in DOMAIN modules \cup {module_stats.module_number} |->
                    IF k = module_stats.module_number THEN module_stats
                    ELSE modules[k]]
           ELSE modules
    /\ module_stats' = None
    /\ mi' = mi + 1
    /\ pc' = "modules"
    /\ UNCHANGED << tree, args, outfile, patterns, lesson_dirs, exc, console,
                    exit_code, ret >>

ScanEnd ==
    /\ pc = "modules"
    /\ mi > Len(MODULES)
    /\ console' = Append(console, "scan finished")
    /\ pc' = "scanned"
    /\ UNCHANGED << tree, args, outfile, patterns, modules, mi, module_stats,
                    lesson_dirs, exc, exit_code, ret >>

Scan == ScanStart \/ ScanModule \/ ScanLessonDir \/ ScanModuleEnd \/ ScanEnd

\* scanner.scan() on a fresh scanner
InitScan ==
    /\ tree \in Trees(PresentModules, Pool, MaxLessons)
    /\ args = None
    /\ outfile = None
    /\ pc = "scan"
    /\ Fresh

SpecScan == InitScan /\ [][Scan]_vars

(***************************************************************************)
(* main                                                                    *)
(***************************************************************************)
\* a report written by an earlier run, and a file cut short by a failed write
OldReport == [written |-> "earlier"]

PartialReport == [written |-> "partly"]

\* parse_args; --output keeps its default, the one file outfile stands for
ParseArgs ==
    /\ pc = "main"
    /\ args' \in [check_only : BOOLEAN, verbose : BOOLEAN, json : BOOLEAN]
    /\ pc' = "scan"
    /\ UNCHANGED << tree, outfile, patterns, modules, mi, module_stats,
                    lesson_dirs, exc, console, exit_code, ret >>

\* if args.json: print(json.dumps(...)); return 0
PrintJson ==
    /\ pc = "scanned"
    /\ args.json
    /\ console' = Append(console, "json document")
    /\ exit_code' = 0
    /\ pc' = "done"
    /\ UNCHANGED << tree, args, outfile, patterns, modules, mi, module_stats,
                    lesson_dirs, exc, ret >>

\* the console summary: the totals, then one coverage line per component
PrintSummary ==
    /\ pc = "scanned"
    /\ ~args.json
    /\ LET stats == get_overall_stats(patterns, modules)
       IN  IF CoverageRaises(stats)
           THEN /\ console' = Append(console, "summary totals")
                /\ exc' = "ZeroDivisionError"
                /\ exit_code' = 1
                /\ pc' = "raised"
           ELSE /\ console' = console \o <<"summary totals", "summary coverage">>
                /\ pc' = "summary"
                /\ UNCHANGED << exc, exit_code >>
    /\ UNCHANGED << tree, args, outfile, patterns, modules, mi, module_stats,
                    lesson_dirs, ret >>

\* if not args.check_only: generate_markdown, mkdir, write_text
WriteReport ==
    /\ pc = "summary"
    /\ ~args.check_only
    /\ outfile' = generate_markdown(patterns, modules)
    /\ console' = console \o <<"generating report", "report saved">>
    /\ exit_code' = 0
    /\ pc' = "done"
    /\ UNCHANGED << tree, args, patterns, modules, mi, module_stats,
                    lesson_dirs, exc, ret >>

\* mkdir or write_text raises OSError
WriteFails ==
    /\ pc = "summary"
    /\ ~args.check_only
    /\ outfile' \in {outfile, PartialReport}
    /\ console' = Append(console, "generating report")
    /\ exc' = "OSError"
    /\ exit_code' = 1
    /\ pc' = "raised"
    /\ UNCHANGED << tree, args, patterns, modules, mi, module_stats,
                    lesson_dirs, ret >>

\* as CheckOnlyNotice, but writing the report all the same
CheckOnlyNoticeWrites ==
    /\ pc = "summary"
    /\ args.check_only
    /\ outfile' = generate_markdown(patterns, modules)
    /\ console' = Append(console, "check-only notice")
    /\ exit_code' = 0
    /\ pc' = "done"
    /\ UNCHANGED << tree, args, patterns, modules, mi, module_stats,
                    lesson_dirs, exc, ret >>

\* else: print the --check-only notice
CheckOnlyNotice ==
    /\ pc = "summary"
    /\ args.check_only
    /\ console' = Append(console, "check-only notice")
    /\ exit_code' = 0
    /\ pc' = "done"
    /\ UNCHANGED << tree, args, outfile, patterns, modules, mi, module_stats,
                    lesson_dirs, exc, ret >>

Main ==
    \/ ParseArgs
    \/ Scan
    \/ PrintJson
    \/ PrintSummary
    \/ WriteReport
    \/ WriteFails
    \/ CheckOnlyNotice

\* the entries of a module directory in the runs of main
MainPool ==
    { e \in Pool : e.name \in { Lesson_1_a, <<"lesson", "_", "1", "a", "_", "b">>,
                                <<"lesson", "_", "3", "_", "x", "_", "a", "_", "b">> } }

MaxMainLessons == 1

Init ==
    /\ tree \in Trees(PresentModules, MainPool, MaxMainLessons)
    /\ args = None
    /\ outfile \in {None, OldReport}
    /\ pc = "main"
    /\ Fresh

Spec == Init /\ [][Main]_vars

(***************************************************************************)
(* _scan_lesson called on one lesson directory                             *)
(***************************************************************************)
\* the lesson directory of the call
TheLesson == CHOOSE l \in (CHOOSE m \in tree : TRUE).entries : TRUE

CallScanLesson ==
    /\ pc = "call _scan_lesson"
    /\ LET m == MODULES[1]
           r == _scan_lesson(m.num, m.name, m.dir, TheLesson)
       IN  /\ ret' = r.value
           /\ exc' = r.exc
    /\ pc' = "returned"
    /\ UNCHANGED << tree, args, outfile, patterns, modules, mi, module_stats,
                    lesson_dirs, console, exit_code >>

InitLesson ==
    /\ \E l \in UnitLessons : tree = { Dir(MODULES[1].dir, {l}) }
    /\ args = None
    /\ outfile = None
    /\ pc = "call _scan_lesson"
    /\ Fresh

SpecLesson == InitLesson /\ [][CallScanLesson]_vars

(***************************************************************************)
(* The methods of a PatternStatus built with any flags                     *)
(***************************************************************************)
AnyStatus ==
    { [a \in DOMAIN base \cup DOMAIN flags |->
          IF a \in DOMAIN flags THEN flags[a] ELSE base[a]] :
        base \in { PatternStatus(<<1, "m", 1, <<"A">>, <<"a">>, << >> >>) },
        flags \in [DOMAIN weights -> BOOLEAN] }

CallCompletionPercentage ==
    /\ pc = "methods"
    /\ ret' = [method |-> "completion_percentage",
               value |-> completion_percentage(patterns[1])]
    /\ UNCHANGED << tree, args, outfile, pc, patterns, modules, mi,
                    module_stats, lesson_dirs, exc, console, exit_code >>

CallGetStatusEmoji ==
    /\ pc = "methods"
    /\ ret' = [method |-> "get_status_emoji",
               value |-> get_status_emoji(patterns[1])]
    /\ UNCHANGED << tree, args, outfile, pc, patterns, modules, mi,
                    module_stats, lesson_dirs, exc, console, exit_code >>

CallGetStatusText ==
    /\ pc = "methods"
    /\ ret' = [method |-> "get_status_text",
               value |-> get_status_text(patterns[1])]
    /\ UNCHANGED << tree, args, outfile, pc, patterns, modules, mi,
                    module_stats, lesson_dirs, exc, console, exit_code >>

Methods == CallCompletionPercentage \/ CallGetStatusEmoji \/ CallGetStatusText

InitMethods ==
    /\ tree = {}
    /\ args = None
    /\ outfile = None
    /\ pc = "methods"
    /\ \E p \in AnyStatus : patterns = <<p>>
    /\ modules = NoModules
    /\ mi = 0
    /\ module_stats = None
    /\ lesson_dirs = << >>
    /\ exc = "none"
    /\ console = << >>
    /\ exit_code = Running
    /\ ret = None

SpecMethods == InitMethods /\ [][Methods]_vars

(***************************************************************************)
(* Claims                                                                  *)
(***************************************************************************)
Returned(method) == ret # None /\ ret.method = method

AllFlags(p) == \A a \in DOMAIN weights : p[a]

\* C1: for each of the 256 combinations of the eight presence flags,
\* completion_percentage() lies in [0, 100], does not decrease when one false
\* flag is turned true, and is 100 exactly when all eight flags are true.
C1_CompletionPercentage ==
    Returned("completion_percentage") =>
        LET p == patterns[1]
            v == ret.value
        IN  /\ FloatGE(v, 0)
            /\ FloatLE(v, FromInt(100))
            /\ \A a \in DOMAIN weights :
                   ~p[a] => FloatLE(v, completion_percentage([p EXCEPT ![a] = TRUE]))
            /\ (v = FromInt(100)) <=> AllFlags(p)

\* C1 witness: the call returned 100 for the record with every flag true
C1_Witness ==
    /\ Returned("completion_percentage")
    /\ AllFlags(patterns[1])
    /\ ret.value = FromInt(100)

\* the brackets of the claim, on the exact percentage 100 * achieved / total
BracketOf(p) ==
    LET a == 100 * achieved_weight(p)
        t == total_weight
    IN  IF a >= 90 * t THEN 1
        ELSE IF a >= 70 * t THEN 2
        ELSE IF a >= 50 * t THEN 3
        ELSE IF a >= 30 * t THEN 4
        ELSE 5

BracketTexts ==
    << "fully implemented", "practically complete", "partially implemented",
       "basic structure", "minimal structure" >>

BracketEmojis ==
    << "check mark", "green circle", "yellow circle", "orange circle",
       "red circle" >>

IndexIn(seq, x) == CHOOSE i \in 1..Len(seq) : seq[i] = x

\* C5: the status text and the status emoji are each chosen by the brackets
\* >= 90, >= 70, >= 50, >= 30, else, of the completion percentage (30, 50, 70
\* and 90 in the higher bracket), and both methods choose the same bracket
\* for the same record.
C5_StatusBrackets ==
    /\ Returned("get_status_text") =>
           ret.value = BracketTexts[BracketOf(patterns[1])]
    /\ Returned("get_status_emoji") =>
           ret.value = BracketEmojis[BracketOf(patterns[1])]
    /\ pc = "methods" =>
           IndexIn(BracketTexts, get_status_text(patterns[1]))
               = IndexIn(BracketEmojis, get_status_emoji(patterns[1]))

\* C5 witness: get_status_text returned "partially implemented" for a record
\* at exactly 50
C5_Witness ==
    /\ Returned("get_status_text")
    /\ achieved_weight(patterns[1]) = 50
    /\ ret.value = "partially implemented"

\* what a lesson directory really holds, category by category, as the
\* derivation rules of the lesson inspector state them
MatchExists(dir, pattern) == \E e \in dir.entries : fnmatch(e.name, pattern)

ReallyPresent(dir, pattern_name) ==
    [ has_readme |-> \E e \in dir.entries : e.name = README,
      has_cmakelists |-> \E e \in dir.entries : e.name = CMAKELISTS,
      has_security_analysis |-> \E e \in dir.entries : e.name = SECURITY_ANALYSIS,
      has_security_poster |->
          \/ MatchExists(dir, <<"*", "SECURITY", "_", "POSTER", ".md">>)
          \/ MatchExists(dir, upper(pattern_name)
                                 \o <<"_", "SECURITY", "_", "POSTER", ".md">>),
      has_vulnerabilities |->
          MatchExists(dir, <<"*", "_", "vulnerabilities", ".cpp">>),
      has_exploits |->
          \E e \in dir.entries :
              /\ e.name = <<"exploits">>
              /\ e.is_dir
              /\ MatchExists(e, <<"*", ".cpp">>),
      has_secure_alternatives |->
          MatchExists(dir, <<"secure", "_", "*", "_", "alternatives", ".cpp">>),
      has_cpp23_comparison |->
          \/ MatchExists(dir, <<"*", "_", "cpp23", "_", "comparison", ".cpp">>)
          \/ MatchExists(dir, <<"*", "_", "cpp23", "_", "*", ".cpp">>) ]

\* _scan_lesson returned a record
ReturnedRecord == pc = "returned" /\ exc = "none" /\ ret # None

\* the percentage of a record whose flags are those of truth
PercentageOf(truth) ==
    completion_percentage([a \in DOMAIN weights |-> truth[a]])

\* C2: the record _scan_lesson produces has the completion percentage of
\* exactly the artifact categories that really exist in the directory; with
\* only README.md and CMakeLists.txt that is 20% and "minimal structure",
\* with only README.md, CMakeLists.txt, SECURITY_ANALYSIS.md and a
\* *_vulnerabilities.cpp file it is 50%.
C2_ScoreOfWhatExists ==
    ReturnedRecord =>
        LET dir   == TheLesson
            truth == ReallyPresent(dir, ret.pattern_name)
        IN  /\ completion_percentage(ret) = PercentageOf(truth)
            /\ dir.entries = OnlyReadmeAndBuild =>
                   /\ completion_percentage(ret) = FromInt(20)
                   /\ get_status_text(ret) = "minimal structure"
            /\ dir.entries = OnlyReadmeAndBuild \cup
                   { File(SECURITY_ANALYSIS),
                     File(<<"a", "_", "vulnerabilities", ".cpp">>) } =>
                   completion_percentage(ret) = FromInt(50)

\* C3: after _scan_lesson, has_security_poster is true exactly when the
\* lesson directory holds a file matching *SECURITY_POSTER.md or
\* <PATTERN_NAME_UPPERCASE>_SECURITY_POSTER.md.
C3_PosterIffFile ==
    ReturnedRecord =>
        (ret.has_security_poster
            <=> ReallyPresent(TheLesson, ret.pattern_name).has_security_poster)

\* the underscore-free pieces a name may consist of
Pieces == Segments \cup { <<"lesson">>, <<"2">>, <<"x">>, <<"b">> }

\* the integer a piece of digits denotes
PieceValue(piece) ==
    CASE piece = <<"1">> -> 1
      [] piece = <<"2">> -> 2
      [] piece = <<"1", "0">> -> 10
      [] OTHER -> 0 - 1

NumSegments(name) == Cardinality({ i \in 1..Len(name) : name[i] = "_" }) + 1

NoUnderscore(s) == \A i \in 1..Len(s) : s[i] # "_"

\* C9: for a directory name of four or more underscore-delimited segments
\* pattern_name is the segments from index 3 on joined by "_" (the third
\* segment is left out); for a name of exactly three segments it is the
\* third segment; lesson_number is the integer value of the second segment.
C9_PatternNameAndNumber ==
    ReturnedRecord =>
        LET name == TheLesson.name
        IN  /\ NumSegments(name) >= 4 =>
                \E p1 \in Pieces, p2 \in Pieces, p3 \in Pieces :
                    /\ name = p1 \o <<"_">> \o p2 \o <<"_">> \o p3 \o <<"_">>
                                 \o ret.pattern_name
                    /\ ret.lesson_number = PieceValue(p2)
            /\ NumSegments(name) = 3 =>
                \E p1 \in Pieces, p2 \in Pieces :
                    /\ name = p1 \o <<"_">> \o p2 \o <<"_">> \o ret.pattern_name
                    /\ NoUnderscore(ret.pattern_name)
                    /\ ret.lesson_number = PieceValue(p2)

\* C9 witness: a record for a name of five segments, lesson_10_a_1a_a
C9_Witness ==
    /\ ReturnedRecord
    /\ TheLesson.name = <<"lesson", "_", "1", "0", "_", "a", "_", "1", "a", "_", "a">>
    /\ ret.pattern_name = <<"1", "a", "_", "a">>
    /\ ret.lesson_number = 10

(***************************************************************************)
(* Claims about scan                                                       *)
(***************************************************************************)
\* the piece of name between its first and its second underscore
SecondSegment(name) ==
    LET us == { i \in 1..Len(name) : name[i] = "_" }
        u1 == CHOOSE i \in us : \A j \in us : i <= j
        u2 == CHOOSE i \in us \ {u1} : \A j \in us \ {u1} : i <= j
    IN  IF Cardinality(us) >= 2 THEN SubSeq(name, u1 + 1, u2 - 1)
        ELSE SubSeq(name, u1 + 1, Len(name))

IsInteger(piece) ==
    piece # << >> /\ \A i \in 1..Len(piece) : piece[i] \in {"0", "1", "2", "3"}

\* the directories of module directory m that scan visits as lessons
LessonDirsOf(m) ==
    IF m.is_dir
    THEN { l \in m.entries :
             /\ l.is_dir
             /\ Len(l.name) >= 2 /\ l.name[1] = "lesson" /\ l.name[2] = "_" }
    ELSE {}

ShortNamed(l) == NumSegments(l.name) < 3

NonNumeric(l) == ~ShortNamed(l) /\ ~IsInteger(SecondSegment(l.name))

ValidLesson(l) == ~ShortNamed(l) /\ IsInteger(SecondSegment(l.name))

\* the module directories of the tree, by their index in MODULES
ModuleDirs == { k \in 1..Len(MODULES) : \E m \in tree : m.name = MODULES[k].dir }

ModuleDir(k) == CHOOSE m \in tree : m.name = MODULES[k].dir

RecordedIn(ps, k, l) ==
    \E i \in 1..Len(ps) : ps[i].directory = <<MODULES[k].dir, l.name>>

\* every valid lesson directory of the tree has its record in the flat list
AllValidRecorded ==
    \A k \in ModuleDirs : \A l \in LessonDirsOf(ModuleDir(k)) :
        ValidLesson(l) => RecordedIn(patterns, k, l)

\* C4: a lesson_* directory whose second segment is not an integer gives no
\* record and no error, and every other valid lesson of that module and of
\* the later modules is still recorded.
C4_NonNumericSkipped ==
    /\ exc = "none"
    /\ \A k \in ModuleDirs : \A l \in LessonDirsOf(ModuleDir(k)) :
           NonNumeric(l) => ~RecordedIn(patterns, k, l)
    /\ pc = "scanned" => AllValidRecorded

\* everything scan has recorded so far: the flat list, the module map and the
\* module being filled
HeldAnywhere ==
    { patterns[i] : i \in 1..Len(patterns) }
    \cup UNION { { modules[k].patterns[i] : i \in 1..Len(modules[k].patterns) }
                   : k \in DOMAIN modules }
    \cup ( IF module_stats = None THEN {}
           ELSE { module_stats.patterns[i] : i \in 1..Len(module_stats.patterns) } )

\* C10: a lesson_* directory whose name has fewer than three segments gives
\* no record and no error: nothing is added for it to the flat list or to a
\* module, and the other lessons of its module are still recorded.
\* The step that meets such a directory changes nothing but the position of
\* the loop, which goes on with the directories that follow.
ShortNameNeverHeld ==
    /\ \A r \in HeldAnywhere : r # None /\ NumSegments(r.directory[2]) >= 3
    /\ exc # "none" => ~ShortNamed(Head(lesson_dirs))
    /\ pc = "scanned" => AllValidRecorded

ShortNameStep ==
    ( /\ pc = "lessons"
      /\ lesson_dirs # << >>
      /\ Head(lesson_dirs).is_dir
      /\ ShortNamed(Head(lesson_dirs)) )
    => /\ lesson_dirs' = Tail(lesson_dirs)
       /\ UNCHANGED << pc, patterns, modules, module_stats, exc, exit_code >>

C10_ShortNameSkipped == []ShortNameNeverHeld /\ [][ShortNameStep]_vars

\* C10 witness: a finished scan of a module that holds lesson_0 and, after it
\* in the order of the scan, the recorded lesson_1_a
C10_Witness ==
    /\ pc = "scanned"
    /\ \E k \in ModuleDirs :
          /\ \E l \in LessonDirsOf(ModuleDir(k)) : l.name = <<"lesson", "_", "0">>
          /\ \E i \in 1..Len(patterns) :
                 patterns[i].directory = <<MODULES[k].dir, Lesson_1_a>>

\* the records of the flat list made under module directory k, in order
RECURSIVE MadeUnder(_, _)
MadeUnder(ps, k) ==
    IF ps = << >> THEN << >>
    ELSE LET rest == MadeUnder(SubSeq(ps, 1, Len(ps) - 1), k)
             p    == ps[Len(ps)]
         IN  IF p.directory[1] = MODULES[k].dir THEN Append(rest, p) ELSE rest

ModuleNumbers == { MODULES[k].num : k \in 1..Len(MODULES) }

IndexOfNumber(n) == CHOOSE k \in 1..Len(MODULES) : MODULES[k].num = n

\* C6: after a scan a module number is a key of the module map exactly when
\* a lesson record was made under that module's directory (a module with no
\* discovered lesson, or with no directory, is no key), and a module with
\* N >= 1 lessons has average_completion() = (the sum of its lessons'
\* completion percentages) / N.
C6_ModuleMapAndAverage ==
    pc = "scanned" =>
        \A n \in ModuleNumbers :
            LET k    == IndexOfNumber(n)
                made == MadeUnder(patterns, k)
            IN  /\ n \in DOMAIN modules <=> made # << >>
                /\ made # << >> =>
                       /\ k \in ModuleDirs
                       /\ \E l \in LessonDirsOf(ModuleDir(k)) : ValidLesson(l)
                       /\ average_completion(modules[n])
                              = FloatDivInt(SumCompletion(made), Len(made))
                /\ Len(made) = Cardinality({ l \in
                       (IF k \in ModuleDirs THEN LessonDirsOf(ModuleDir(k)) ELSE {}) :
                           ValidLesson(l) })

\* C6 witness: after a scan, module 9 is a key with two lessons, 45% and 55%,
\* and average 50, while the directory of module 1 exists and gave no lesson
C6_Witness ==
    /\ pc = "scanned"
    /\ 9 \in DOMAIN modules
    /\ 1 \notin DOMAIN modules
    /\ 1 \in ModuleDirs
    /\ Len(modules[9].patterns) = 2
    /\ achieved_weight(modules[9].patterns[1]) = 45
    /\ achieved_weight(modules[9].patterns[2]) = 55
    /\ FloatGE(average_completion(modules[9]), 50)

Occurrences(r) ==
    UNION { { <<k, i>> : i \in { j \in 1..Len(modules[k].patterns) :
                                     modules[k].patterns[j] = r } }
              : k \in DOMAIN modules }

RECURSIVE SumOfCounts(_)
SumOfCounts(keys) ==
    IF keys = {} THEN 0
    ELSE LET k == CHOOSE j \in keys : TRUE
         IN  Len(modules[k].patterns) + SumOfCounts(keys \ {k})

\* C7: after a scan on a fresh scanner every record of the flat list is in
\* the list of exactly one ModuleStats of the module map, whose key and
\* module_number are the record's module_number; no module holds a record
\* that the flat list lacks; the number of lessons is the sum of the modules'
\* numbers of lessons.
C7_OneModulePerRecord ==
    pc = "scanned" =>
        /\ \A i \in 1..Len(patterns) :
               /\ Cardinality(Occurrences(patterns[i])) = 1
               /\ \A o \in Occurrences(patterns[i]) :
                      /\ o[1] = patterns[i].module_number
                      /\ modules[o[1]].module_number = patterns[i].module_number
        /\ \A k \in DOMAIN modules : \A j \in 1..Len(modules[k].patterns) :
               \E i \in 1..Len(patterns) : patterns[i] = modules[k].patterns[j]
        /\ Len(patterns) = SumOfCounts(DOMAIN modules)

\* C7 witness: after a scan, three records in two modules
C7_Witness ==
    /\ pc = "scanned"
    /\ Len(patterns) = 3
    /\ DOMAIN modules = {1, 9}

(***************************************************************************)
(* Claims about main                                                       *)
(***************************************************************************)
Printed(line) == \E i \in 1..Len(console) : console[i] = line

\* what main has printed since scan returned
SinceScan ==
    LET i == CHOOSE j \in 1..Len(console) : console[j] = "scan finished"
    IN  SubSeq(console, i + 1, Len(console))

\* what the console and the exit code show in each mode
ModesOnConsole ==
    /\ args # None /\ args.json =>
           /\ ~Printed("summary totals") /\ ~Printed("summary coverage")
           /\ ~Printed("generating report") /\ ~Printed("report saved")
           /\ ~Printed("check-only notice")
           /\ pc = "done" => SinceScan = <<"json document">> /\ exit_code = 0
    /\ args # None /\ args.check_only =>
           /\ ~Printed("generating report") /\ ~Printed("report saved")
           /\ pc = "done" /\ ~args.json =>
                  /\ SinceScan = <<"summary totals", "summary coverage",
                                   "check-only notice">>
                  /\ exit_code = 0
    /\ Printed("report saved") => ~args.json /\ ~args.check_only

\* a step that changes the output file is a step of a run with neither flag
WritesOnlyWithoutFlags ==
    outfile' # outfile =>
        /\ args # None /\ ~args.json /\ ~args.check_only
        /\ pc = "summary"

\* C8: main writes the output file only in a run with neither --json nor
\* --check-only: with --check-only the console summary is printed and the
\* file is left as it was, and with --json main returns right after printing
\* the document, nothing rendered and nothing written, whatever the other
\* flags are.
C8_WritesOnlyWithoutFlags == []ModesOnConsole /\ [][WritesOnlyWithoutFlags]_vars

\* C8 witness: a --check-only run has returned 0 with the summary on the
\* console and the earlier report still in place
C8_Witness ==
    /\ pc = "done"
    /\ args.check_only /\ ~args.json
    /\ Printed("summary coverage")
    /\ outfile = OldReport

\* a run without --json whose scan has returned and which has ended, on a
\* return or on an exception, the failure of the final write apart
EndedAfterScan ==
    /\ args # None /\ ~args.json
    /\ Printed("scan finished")
    /\ pc \in {"done", "raised"}
    /\ exc # "OSError"

\* C11: for every scan result, one with zero lessons included, a run without
\* --json completes the console summary (and, unless --check-only, the
\* report) and returns exit code 0: the overall mean completion is 0 when
\* there is no lesson and no coverage percentage fails on a division by zero.
C11_SummaryCompletes ==
    /\ exc # "ZeroDivisionError"
    /\ EndedAfterScan =>
           /\ pc = "done" /\ exit_code = 0
           /\ Printed("summary totals") /\ Printed("summary coverage")
           /\ ~args.check_only => Printed("report saved")
    /\ patterns = << >> =>
           get_overall_stats(patterns, modules).average_completion = FromInt(0)

\* C11 failing run: the scan returned with no lesson, the totals were printed
\* and the first coverage row raised
C11_Witness ==
    /\ EndedAfterScan
    /\ patterns = << >>
    /\ exc = "ZeroDivisionError"
    /\ Printed("summary totals") /\ ~Printed("summary coverage")
    /\ exit_code = 1

====
